---- MODULE Spec2Model ----
(***************************************************************************)
(* Model of the snowflake id generator (src/src/generator.rs).             *)
(*                                                                         *)
(* State: the wall clock, the generator handle each thread holds           *)
(* (center_id, worker_id and the shared cell its two Arc<AtomicU64> point  *)
(* to), the two atomics of every cell, and the position and locals of the  *)
(* next_id call each thread is running.  Every atomic load, fetch_add and  *)
(* store of next_id, and every clock read, is one step, so that calls on a *)
(* shared cell interleave as the code lets them.                           *)
(*                                                                         *)
(* Time: Constants::EPOCH is 1680646028000 ms, beyond the integers TLC     *)
(* computes with.  The code uses the epoch only in `timestamp - EPOCH`, so *)
(* the model counts milliseconds from an origin shortly before the epoch:  *)
(* EPOCH is a small positive number, clock readings are EPOCH..EPOCH +     *)
(* MaxTick, and the 0 a fresh last_timestamp holds stays below every clock *)
(* reading, as it is in the code.  Ids stay far below 2^64, so the u64     *)
(* wrap of `<<` and of fetch_add is never reached within the bounds.       *)
(***************************************************************************)
EXTENDS Integers, Sequences, FiniteSets, TLC

\* ------------------------------------------------------------------ bounds

\* Threads that hold a generator handle.
NumThreads == 2
\* The clock reads EPOCH .. EPOCH + MaxTick.
MaxTick == 2
\* Arguments tried for SnowflakeGenerator::new: 0 .. MaxIdArg.
MaxIdArg == 33
\* Where the clock can be set back, it reads EPOCH .. EPOCH + MaxBackTick.
MaxBackTick == 9
\* The longest MAC byte vector the interface lookup returns in the model.
MaxMacLen == 3
\* The rounds of set_sequence(get_sequence() + 1) each thread makes (the test
\* of the repository makes 10).
Iterations == 3

\* --------------------------------------------------------------- constants

\* Constants::EPOCH, in the model's time origin (see the note on time above).
EPOCH == 1000

DATA_CENTER_ID_BITS == 5
WORKER_ID_BITS == 5
SEQUENCE_BITS == 12

\* `x << n` and `x >> n` on values that stay below 2^64.
Shl(x, n) == x * (2 ^ n)
Shr(x, n) == x \div (2 ^ n)

RECURSIVE BitOr(_, _)
BitOr(a, b) ==
    IF a = 0 THEN b
    ELSE IF b = 0 THEN a
    ELSE (IF a % 2 = 1 \/ b % 2 = 1 THEN 1 ELSE 0) + 2 * BitOr(a \div 2, b \div 2)

RECURSIVE BitAnd(_, _)
BitAnd(a, b) ==
    IF a = 0 \/ b = 0 THEN 0
    ELSE (IF a % 2 = 1 /\ b % 2 = 1 THEN 1 ELSE 0) + 2 * BitAnd(a \div 2, b \div 2)

\* 1 << bits: one past the low `bits` bits.
LowBitsOffByOne(bits) == 2 ^ bits

\* !(!0 << bits): the low `bits` bits set.
LowBits(bits) == (2 ^ bits) - 1

MAX_DATA_CENTER_ID == LowBits(DATA_CENTER_ID_BITS)
MAX_WORKER_ID == LowBits(WORKER_ID_BITS)
SEQUENCE_MASK == LowBits(SEQUENCE_BITS)

WORKER_ID_SHIFT == SEQUENCE_BITS
CENTER_ID_SHIFT == SEQUENCE_BITS + WORKER_ID_BITS
TIMESTAMP_SHIFT == DATA_CENTER_ID_BITS + WORKER_ID_BITS + SEQUENCE_BITS

DEFAULT_DATA_CENTER_ID == 1
DEFAULT_WORKER_ID == 1

\* ------------------------------------------------------------------- state

Threads == 1 .. NumThreads
\* The cells: one for the generator each thread may build, and cell 0 for the
\* process-wide default generator.
Cells == 0 .. NumThreads

NoGen == [center_id |-> -1, worker_id |-> -1, cell |-> 0]
NoResult == <<"none">>

VARIABLES
    clock,           \* the wall clock, in ms
    gen,             \* gen[t]: the SnowflakeGenerator thread t holds, or NoGen
    new_result,      \* new_result[t]: outcome of the construction t attempted
    new_args,        \* new_args[t]: the <<center_id, worker_id>> t passed to new
    sequence,        \* sequence[c]: the AtomicU64 `sequence` of cell c
    last_timestamp,  \* last_timestamp[c]: the AtomicU64 `last_timestamp` of cell c
    pc,              \* pc[t]: where t is in next_id
    timestamp,       \* next_id's local `timestamp`
    last,            \* next_id's local `last_timestamp`
    seq,             \* next_id's local `sequence`
    result,          \* what t's call returned: <<"Ok", id>> or <<"Err", e>>
    reads,           \* the clock readings t's call has taken, in order
    wrote_seq,       \* the value t's call stored in `sequence` (-1: none yet)
    wrote_ts,        \* the value t's call stored in `last_timestamp` (-1: none yet)
    slept,           \* the ms t's call has slept for a clock regression
    prev,            \* what t's previous call returned
    began,           \* <<sequence, last_timestamp>> stored when t's call started
    clock_back,      \* whether the wall clock has ever been set back
    instance,        \* BUILT_IN_SNOWFLAKE: the default generator, or NoGen (None)
    mutex,           \* the thread holding the lock of BUILT_IN_SNOWFLAKE, 0 if free
    lpc,             \* lpc[t]: where t is in the library-level next_id
    incs,            \* incs[t]: the set_sequence(get_sequence() + 1) t has completed
    got,             \* got[t]: what t's pending get_sequence() returned (-1: none)
    derived          \* what dynamic() has derived from the interface lookup and the pid

vars == <<clock, gen, new_result, new_args, sequence, last_timestamp, pc, timestamp, last,
          seq, result, reads, wrote_seq, wrote_ts, slept, prev, began, clock_back,
          instance, mutex, lpc, incs, got, derived>>

clockVars == <<clock, clock_back>>
libVars == <<instance, mutex, lpc>>
testVars == <<incs, got>>
restVars == <<clockVars, libVars, testVars, derived>>
restOfVars == <<libVars, testVars, derived>>

genVars == <<gen, new_result, new_args>>
cellVars == <<sequence, last_timestamp>>
callVars == <<pc, timestamp, last, seq, result, reads, wrote_seq, wrote_ts, slept,
              prev, began>>

Init ==
    /\ clock = EPOCH
    /\ gen = [t \in Threads |-> NoGen]
    /\ new_result = [t \in Threads |-> "none"]
    /\ new_args = [t \in Threads |-> <<>>]
    /\ sequence = [c \in Cells |-> 0]
    /\ last_timestamp = [c \in Cells |-> 0]
    /\ pc = [t \in Threads |-> "idle"]
    /\ timestamp = [t \in Threads |-> 0]
    /\ last = [t \in Threads |-> 0]
    /\ seq = [t \in Threads |-> 0]
    /\ result = [t \in Threads |-> NoResult]
    /\ reads = [t \in Threads |-> <<>>]
    /\ wrote_seq = [t \in Threads |-> -1]
    /\ wrote_ts = [t \in Threads |-> -1]
    /\ slept = [t \in Threads |-> 0]
    /\ prev = [t \in Threads |-> NoResult]
    /\ began = [t \in Threads |-> <<>>]
    /\ clock_back = FALSE
    /\ instance = NoGen
    /\ mutex = 0
    /\ lpc = [t \in Threads |-> "out"]
    /\ incs = [t \in Threads |-> 0]
    /\ got = [t \in Threads |-> -1]
    /\ derived = NoResult

\* ------------------------------------------------------------ construction

\* new with the center check one too lax.
NewOutcomeLaxCenter(center_id, worker_id) ==
    IF center_id > MAX_DATA_CENTER_ID + 1 THEN "CenterIdInvalid"
    ELSE "Ok"

\* new with both checks one too strict.
NewOutcomeStrict(center_id, worker_id) ==
    IF center_id >= MAX_DATA_CENTER_ID THEN "CenterIdInvalid"
    ELSE IF center_id >= MAX_WORKER_ID THEN "WorkerIdInvalid"
    ELSE "Ok"

\* SnowflakeGenerator::new: the Result it returns, before any cell is made.
NewOutcome(center_id, worker_id) ==
    IF center_id > MAX_DATA_CENTER_ID THEN "CenterIdInvalid"
    ELSE IF center_id > MAX_WORKER_ID THEN "WorkerIdInvalid"
    ELSE "Ok"

\* Thread t calls SnowflakeGenerator::new(center_id, worker_id); on success it
\* holds a generator over a fresh cell (cell t) with both atomics 0.
New(t, center_id, worker_id) ==
    /\ new_result[t] = "none"
    /\ new_result' = [new_result EXCEPT ![t] = NewOutcome(center_id, worker_id)]
    /\ new_args' = [new_args EXCEPT ![t] = <<center_id, worker_id>>]
    /\ IF NewOutcome(center_id, worker_id) = "Ok"
       THEN /\ gen' = [gen EXCEPT ![t] = [center_id |-> center_id,
                                          worker_id |-> worker_id,
                                          cell |-> t]]
            /\ sequence' = [sequence EXCEPT ![t] = 0]
            /\ last_timestamp' = [last_timestamp EXCEPT ![t] = 0]
       ELSE UNCHANGED <<gen, sequence, last_timestamp>>
    /\ UNCHANGED <<restVars, callVars>>

\* SnowflakeGenerator::builtin.
Builtin(t) == New(t, DEFAULT_DATA_CENTER_ID, DEFAULT_WORKER_ID)

\* A clone that copies the two counters into a cell of its own.
CloneDeep(t, u) ==
    /\ new_result[t] = "none"
    /\ new_result[u] = "Ok"
    /\ gen' = [gen EXCEPT ![t] = [gen[u] EXCEPT !.cell = t]]
    /\ sequence' = [sequence EXCEPT ![t] = sequence[gen[u].cell]]
    /\ last_timestamp' = [last_timestamp EXCEPT ![t] = last_timestamp[gen[u].cell]]
    /\ new_result' = [new_result EXCEPT ![t] = "Ok"]
    /\ UNCHANGED <<restVars, new_args, callVars>>

\* #[derive(Clone)]: thread t takes a clone of the generator u holds; the two
\* Arc fields of the clone point to the same cell.
Clone(t, u) ==
    /\ new_result[t] = "none"
    /\ new_result[u] = "Ok"
    /\ gen' = [gen EXCEPT ![t] = gen[u]]
    /\ new_result' = [new_result EXCEPT ![t] = "Ok"]
    /\ UNCHANGED <<restVars, new_args, cellVars, callVars>>

\* ------------------------------------------------------------------- clock

\* A millisecond passes (the model stops the clock at EPOCH + max).
Tick(max) ==
    /\ clock >= EPOCH
    /\ clock < EPOCH + max
    /\ clock' = clock + 1
    /\ UNCHANGED <<clock_back, genVars, cellVars, callVars, restOfVars>>

\* The wall clock is set back by d ms (an NTP correction, an operator).
Regress(d) ==
    /\ d >= 1
    /\ clock - d >= EPOCH
    /\ clock' = clock - d
    /\ clock_back' = TRUE
    /\ UNCHANGED <<genVars, cellVars, callVars, restOfVars>>

\* The reading of a system clock set before UNIX_EPOCH.
BeforeUnixEpoch == -1

\* The system clock is set to a time before UNIX_EPOCH.
ClockFault ==
    /\ clock >= EPOCH
    /\ clock' = BeforeUnixEpoch
    /\ clock_back' = TRUE
    /\ UNCHANGED <<genVars, cellVars, callVars, restOfVars>>

\* time_gen: SystemTime::now() in ms; duration_since(UNIX_EPOCH) is an Err
\* when the clock is before UNIX_EPOCH.
TimeGen == clock
TimeGenFails == clock < 0

\* What .unwrap() on the Err of time_gen leaves of the call: a panic that
\* unwinds next_id, no value returned.
Unwrapped == <<"Panic", "SystemTimeError">>

\* ----------------------------------------------------------------- next_id

Cell(t) == gen[t].cell

\* The packing with the center and worker shifts exchanged.
MakeIdSwapped(ts, center_id, worker_id, s) ==
    BitOr(BitOr(BitOr(Shl(ts - EPOCH, TIMESTAMP_SHIFT),
                      Shl(center_id, WORKER_ID_SHIFT)),
                Shl(worker_id, CENTER_ID_SHIFT)),
          s)

\* The id next_id packs from its locals.
MakeId(ts, center_id, worker_id, s) ==
    BitOr(BitOr(BitOr(Shl(ts - EPOCH, TIMESTAMP_SHIFT),
                      Shl(center_id, CENTER_ID_SHIFT)),
                Shl(worker_id, WORKER_ID_SHIFT)),
          s)

\* The regression test with a threshold of 1 << 2 ms.
AfterLoadLowThreshold(ts, l) ==
    IF ts < l /\ l - ts <= Shl(1, 2) THEN "sleep" ELSE "fetch_add"

\* Where next_id goes once it has `timestamp` and `last_timestamp`: into the
\* sleep when the clock is behind by at most 1 << 3 ms, on to the fetch_add
\* otherwise (also when it is behind by more).
AfterLoad(ts, l) ==
    IF ts < l /\ l - ts <= Shl(1, 3) THEN "sleep" ELSE "fetch_add"

\* A til_next_millis that returns its first reading, whatever it is.
KeepsPollingNever(next, last_ts) == FALSE

\* The loop test of til_next_millis letting an equal reading through.
KeepsPollingStrict(next, last_ts) == next < last_ts

\* while next <= last_timestamp: the reading that keeps til_next_millis polling.
KeepsPolling(next, last_ts) == next <= last_ts

\* The local `sequence` without the + 1 of the same-millisecond branch.
LocalSequenceNoIncrement(ts, l, old) == BitAnd(old, SEQUENCE_MASK)

\* The local `sequence` without the & SEQUENCE_MASK.
LocalSequenceUnmasked(ts, l, old) ==
    IF ts = l THEN old + 1 ELSE old

\* The local `sequence` next_id derives from the value fetch_add returned.
LocalSequence(ts, l, old) ==
    IF ts = l THEN BitAnd(old + 1, SEQUENCE_MASK) ELSE BitAnd(old, SEQUENCE_MASK)

\* let mut timestamp = Self::time_gen().unwrap();
Begin(t) ==
    /\ pc[t] = "idle"
    /\ new_result[t] = "Ok"
    /\ result[t] = NoResult
    /\ reads' = [reads EXCEPT ![t] = <<TimeGen>>]
    /\ began' = [began EXCEPT ![t] = <<sequence[Cell(t)], last_timestamp[Cell(t)]>>]
    /\ IF TimeGenFails
       THEN /\ result' = [result EXCEPT ![t] = Unwrapped]
            /\ pc' = [pc EXCEPT ![t] = "panicked"]
            /\ UNCHANGED timestamp
       ELSE /\ timestamp' = [timestamp EXCEPT ![t] = TimeGen]
            /\ pc' = [pc EXCEPT ![t] = "load_last"]
            /\ UNCHANGED result
    /\ UNCHANGED <<restVars, genVars, cellVars, last, seq, wrote_seq, wrote_ts, slept,
                   prev>>

\* A call that starts only when no other call is under way.
SerialBegin(t) ==
    /\ \A u \in Threads : pc[u] \in {"idle", "done"}
    /\ Begin(t)

\* let last_timestamp = self.get_last_timestamp(); and the two comparisons.
LoadLast(t) ==
    /\ pc[t] = "load_last"
    /\ last' = [last EXCEPT ![t] = last_timestamp[Cell(t)]]
    /\ pc' = [pc EXCEPT ![t] = AfterLoad(timestamp[t], last_timestamp[Cell(t)])]
    /\ UNCHANGED <<restVars, genVars, cellVars, timestamp, seq, result, reads,
                   wrote_seq, wrote_ts, slept, prev, began>>

\* TimeUnit::Milliseconds.sleep(delta << 1);
Sleep(t) ==
    /\ pc[t] = "sleep"
    /\ slept' = [slept EXCEPT ![t] = slept[t] + Shl(last[t] - timestamp[t], 1)]
    /\ pc' = [pc EXCEPT ![t] = "reread"]
    /\ UNCHANGED <<restVars, genVars, cellVars, timestamp, last, seq, result, reads,
                   wrote_seq, wrote_ts, prev, began>>

\* The re-read of a next_id that sleeps again while the clock is behind.
RereadRetrying(t) ==
    /\ pc[t] = "reread"
    /\ reads' = [reads EXCEPT ![t] = <<TimeGen>>]
    /\ timestamp' = [timestamp EXCEPT ![t] = TimeGen]
    /\ pc' = [pc EXCEPT ![t] = IF TimeGen < last[t] THEN "sleep" ELSE "fetch_add"]
    /\ UNCHANGED <<restVars, genVars, cellVars, last, seq, result, wrote_seq, wrote_ts,
                   slept, prev, began>>

\* The re-read with the test `timestamp <= last_timestamp`.
RereadStrict(t) ==
    /\ pc[t] = "reread"
    /\ reads' = [reads EXCEPT ![t] = Append(reads[t], TimeGen)]
    /\ timestamp' = [timestamp EXCEPT ![t] = TimeGen]
    /\ IF TimeGen <= last[t]
       THEN /\ result' = [result EXCEPT ![t] = <<"Err", "ClockMovedBackwards">>]
            /\ pc' = [pc EXCEPT ![t] = "done"]
       ELSE /\ pc' = [pc EXCEPT ![t] = "fetch_add"]
            /\ UNCHANGED result
    /\ UNCHANGED <<restVars, genVars, cellVars, last, seq, wrote_seq, wrote_ts, slept,
                   prev, began>>

\* The re-read of a next_id that has already incremented the sequence when it
\* finds the clock still behind.
RereadCounting(t) ==
    /\ pc[t] = "reread"
    /\ reads' = [reads EXCEPT ![t] = Append(reads[t], TimeGen)]
    /\ timestamp' = [timestamp EXCEPT ![t] = TimeGen]
    /\ IF TimeGen < last[t]
       THEN /\ result' = [result EXCEPT ![t] = <<"Err", "ClockMovedBackwards">>]
            /\ sequence' = [sequence EXCEPT ![Cell(t)] = sequence[Cell(t)] + 1]
            /\ pc' = [pc EXCEPT ![t] = "done"]
       ELSE /\ pc' = [pc EXCEPT ![t] = "fetch_add"]
            /\ UNCHANGED <<result, sequence>>
    /\ UNCHANGED <<restVars, genVars, last_timestamp, last, seq, wrote_seq, wrote_ts,
                   slept, prev, began>>

\* timestamp = Self::time_gen().unwrap(); if timestamp < last_timestamp { Err }
Reread(t) ==
    /\ pc[t] = "reread"
    /\ reads' = [reads EXCEPT ![t] = Append(reads[t], TimeGen)]
    /\ IF TimeGenFails
       THEN /\ result' = [result EXCEPT ![t] = Unwrapped]
            /\ pc' = [pc EXCEPT ![t] = "panicked"]
            /\ UNCHANGED timestamp
       ELSE /\ timestamp' = [timestamp EXCEPT ![t] = TimeGen]
            /\ IF TimeGen < last[t]
               THEN /\ result' = [result EXCEPT ![t] = <<"Err", "ClockMovedBackwards">>]
                    /\ pc' = [pc EXCEPT ![t] = "done"]
               ELSE /\ pc' = [pc EXCEPT ![t] = "fetch_add"]
                    /\ UNCHANGED result
    /\ UNCHANGED <<restVars, genVars, cellVars, last, seq, wrote_seq, wrote_ts, slept,
                   prev, began>>

\* let mut sequence = self.increment_sequence(); and the masking that follows.
FetchAdd(t) ==
    /\ pc[t] = "fetch_add"
    /\ sequence' = [sequence EXCEPT ![Cell(t)] = sequence[Cell(t)] + 1]
    /\ seq' = [seq EXCEPT ![t] = LocalSequence(timestamp[t], last[t], sequence[Cell(t)])]
    /\ pc' = [pc EXCEPT ![t] =
                IF timestamp[t] = last[t]
                   /\ LocalSequence(timestamp[t], last[t], sequence[Cell(t)]) = 0
                THEN "til_next" ELSE "set_seq"]
    /\ UNCHANGED <<restVars, genVars, last_timestamp, timestamp, last, result, reads,
                   wrote_seq, wrote_ts, slept, prev, began>>

\* til_next_millis(timestamp): one clock read of its loop.  A reading that is
\* not later than `timestamp` leaves the call where it is, polling.
TilNextMillis(t) ==
    /\ pc[t] = "til_next"
    /\ IF TimeGenFails
       THEN /\ result' = [result EXCEPT ![t] = Unwrapped]
            /\ reads' = [reads EXCEPT ![t] = Append(reads[t], TimeGen)]
            /\ pc' = [pc EXCEPT ![t] = "panicked"]
            /\ UNCHANGED timestamp
       ELSE IF KeepsPolling(TimeGen, timestamp[t])
       THEN UNCHANGED <<timestamp, reads, pc, result>>
       ELSE /\ timestamp' = [timestamp EXCEPT ![t] = TimeGen]
            /\ reads' = [reads EXCEPT ![t] = Append(reads[t], TimeGen)]
            /\ pc' = [pc EXCEPT ![t] = "set_seq"]
            /\ UNCHANGED result
    /\ UNCHANGED <<restVars, genVars, cellVars, last, seq, wrote_seq, wrote_ts, slept,
                   prev, began>>

\* self.set_sequence(sequence);
SetSequence(t) ==
    /\ pc[t] = "set_seq"
    /\ sequence' = [sequence EXCEPT ![Cell(t)] = seq[t]]
    /\ wrote_seq' = [wrote_seq EXCEPT ![t] = seq[t]]
    /\ pc' = [pc EXCEPT ![t] = "set_last"]
    /\ UNCHANGED <<restVars, genVars, last_timestamp, timestamp, last, seq, result,
                   reads, wrote_ts, slept, prev, began>>

\* self.set_last_timestamp(timestamp); let id = ...; Ok(id)
SetLastTimestamp(t) ==
    /\ pc[t] = "set_last"
    /\ last_timestamp' = [last_timestamp EXCEPT ![Cell(t)] = timestamp[t]]
    /\ wrote_ts' = [wrote_ts EXCEPT ![t] = timestamp[t]]
    /\ result' = [result EXCEPT ![t] =
                    <<"Ok", MakeId(timestamp[t], gen[t].center_id, gen[t].worker_id,
                                   seq[t])>>]
    /\ pc' = [pc EXCEPT ![t] = "done"]
    /\ UNCHANGED <<restVars, genVars, sequence, timestamp, last, seq, reads, wrote_seq,
                   slept, prev, began>>

\* The caller takes the result and calls next_id again on the same handle.
Again(t) ==
    /\ pc[t] = "done"
    /\ prev' = [prev EXCEPT ![t] = result[t]]
    /\ began' = [began EXCEPT ![t] = <<>>]
    /\ result' = [result EXCEPT ![t] = NoResult]
    /\ reads' = [reads EXCEPT ![t] = <<>>]
    /\ wrote_seq' = [wrote_seq EXCEPT ![t] = -1]
    /\ wrote_ts' = [wrote_ts EXCEPT ![t] = -1]
    /\ slept' = [slept EXCEPT ![t] = 0]
    /\ timestamp' = [timestamp EXCEPT ![t] = 0]
    /\ last' = [last EXCEPT ![t] = 0]
    /\ seq' = [seq EXCEPT ![t] = 0]
    /\ pc' = [pc EXCEPT ![t] = "idle"]
    /\ UNCHANGED <<restVars, genVars, cellVars>>

\* next_id run from start to end with no other call in between, on a cell
\* holding <<s, l>>, by a generator g, with r the clock readings it takes (one
\* per time_gen it returns from; til_next_millis counts for the reading that
\* ends its loop).  `fits` says that the run takes exactly the readings of r.
SerialNextId(g, s, l, r) ==
    LET slow == AfterLoad(r[1], l) = "sleep"
        n == IF slow THEN 2 ELSE 1
        misfit == [fits |-> FALSE, sequence |-> s, last_timestamp |-> l,
                   result |-> NoResult]
    IN  IF Len(r) < n THEN misfit
        ELSE LET ts == r[n]
                 sq == LocalSequence(ts, l, s)
             IN  IF slow /\ ts < l
                 THEN [fits |-> Len(r) = n, sequence |-> s, last_timestamp |-> l,
                       result |-> <<"Err", "ClockMovedBackwards">>]
                 ELSE IF ts = l /\ sq = 0
                 THEN IF Len(r) = n + 1 /\ ~KeepsPolling(r[n + 1], ts)
                      THEN [fits |-> TRUE, sequence |-> sq,
                            last_timestamp |-> r[n + 1],
                            result |-> <<"Ok", MakeId(r[n + 1], g.center_id,
                                                      g.worker_id, sq)>>]
                      ELSE misfit
                 ELSE [fits |-> Len(r) = n, sequence |-> sq, last_timestamp |-> ts,
                       result |-> <<"Ok", MakeId(ts, g.center_id, g.worker_id, sq)>>]

\* ------------------------------------------- get_sequence / set_sequence

\* generator_clone.get_sequence(), the argument of the set_sequence to come;
\* the threads are spawned once both handles exist.
GetSequence(t) ==
    /\ \A u \in 1 .. 2 : new_result[u] = "Ok"
    /\ pc[t] = "idle"
    /\ got[t] = -1
    /\ incs[t] < Iterations
    /\ got' = [got EXCEPT ![t] = sequence[Cell(t)]]
    /\ UNCHANGED <<incs, clockVars, derived, libVars, genVars, cellVars, callVars>>

\* generator_clone.set_sequence(<what get_sequence returned> + 1)
StoreIncrement(t) ==
    /\ got[t] # -1
    /\ sequence' = [sequence EXCEPT ![Cell(t)] = got[t] + 1]
    /\ got' = [got EXCEPT ![t] = -1]
    /\ incs' = [incs EXCEPT ![t] = incs[t] + 1]
    /\ UNCHANGED <<last_timestamp, clockVars, derived, libVars, genVars, callVars>>

\* ------------------------------------------------- library-level next_id

\* What generator() leaves in BUILT_IN_SNOWFLAKE: the generator it finds, or
\* SnowflakeGenerator::builtin().unwrap() over the cell of the default instance.
DefaultInstance ==
    IF instance # NoGen THEN instance
    ELSE [center_id |-> DEFAULT_DATA_CENTER_ID, worker_id |-> DEFAULT_WORKER_ID,
          cell |-> 0]

\* generator(): let mut instance = BUILT_IN_SNOWFLAKE.lock().unwrap();
GeneratorLock(t) ==
    /\ lpc[t] = "out"
    /\ new_result[t] = "none"
    /\ mutex = 0
    /\ mutex' = t
    /\ lpc' = [lpc EXCEPT ![t] = "generator"]
    /\ UNCHANGED <<instance, clockVars, derived, testVars, genVars, cellVars, callVars>>

\* A generator() that builds a new default generator (over a cell of its
\* own) on every call.
GeneratorInitAlways(t) ==
    /\ lpc[t] = "generator"
    /\ instance' = [center_id |-> DEFAULT_DATA_CENTER_ID,
                    worker_id |-> DEFAULT_WORKER_ID, cell |-> t]
    /\ sequence' = [sequence EXCEPT ![t] = 0]
    /\ last_timestamp' = [last_timestamp EXCEPT ![t] = 0]
    /\ mutex' = 0
    /\ lpc' = [lpc EXCEPT ![t] = "lock"]
    /\ UNCHANGED <<clockVars, derived, testVars, genVars, callVars>>

\* generator(): if instance.is_none() { *instance = Some(builtin().unwrap()) };
\* the guard is dropped when generator() returns.
GeneratorInit(t) ==
    /\ lpc[t] = "generator"
    /\ instance' = DefaultInstance
    /\ mutex' = 0
    /\ lpc' = [lpc EXCEPT ![t] = "lock"]
    /\ UNCHANGED <<clockVars, derived, testVars, genVars, cellVars, callVars>>

\* A lock() that returns while another thread holds the guard.
LockNoWait(t) ==
    /\ lpc[t] = "lock"
    /\ mutex' = t
    /\ lpc' = [lpc EXCEPT ![t] = "inside"]
    /\ gen' = [gen EXCEPT ![t] = instance]
    /\ new_result' = [new_result EXCEPT ![t] = "Ok"]
    /\ UNCHANGED <<instance, new_args, clockVars, derived, testVars, cellVars, callVars>>

\* next_id(): generator().lock().unwrap().as_ref().unwrap(): t takes the
\* guard and a reference to the default generator; the inner next_id call
\* that follows is made through that reference.
Lock(t) ==
    /\ lpc[t] = "lock"
    /\ mutex = 0
    /\ mutex' = t
    /\ lpc' = [lpc EXCEPT ![t] = "inside"]
    /\ gen' = [gen EXCEPT ![t] = instance]
    /\ new_result' = [new_result EXCEPT ![t] = "Ok"]
    /\ UNCHANGED <<instance, new_args, clockVars, derived, testVars, cellVars, callVars>>

\* next_id() returns what the inner call returned; the guard, a temporary of
\* the whole expression, is dropped only now.
Unlock(t) ==
    /\ lpc[t] = "inside"
    /\ pc[t] \in {"done", "panicked"}
    /\ mutex' = IF mutex = t THEN 0 ELSE mutex
    /\ lpc' = [lpc EXCEPT ![t] = "returned"]
    /\ UNCHANGED <<instance, clockVars, derived, testVars, genVars, cellVars, callVars>>

\* v.to_string(): the decimal digits of v, most significant first.
RECURSIVE to_string(_)
to_string(v) ==
    IF v < 10 THEN <<v>> ELSE Append(to_string(v \div 10), v % 10)

\* next_id_string(): next_id().map(|v| v.to_string())
NextIdString(r) ==
    IF r[1] = "Ok" THEN <<"Ok", to_string(r[2])>> ELSE r

\* ----------------------------------------------------- dynamic identifiers

\* pub const HASH_BASE: u64 = (1 << 5) - 1;
HASH_BASE == Shl(1, 5) - 1

\* String::hashcode of a string of decimal digits (given as the digits, the
\* char of digit d being 48 + d): hash = HASH_BASE * hash + ch over the chars.
\* Only the low 16 bits of the result are ever used (& 0xFFFF), and they
\* depend only on the low 16 bits of the running hash, so the hash is kept
\* modulo 2^16; the u64 of the code does not overflow on strings this short.
RECURSIVE hashcode(_)
hashcode(digits) ==
    IF digits = <<>> THEN 0
    ELSE (HASH_BASE * hashcode(SubSeq(digits, 1, Len(digits) - 1))
            + 48 + digits[Len(digits)]) % (2 ^ 16)

\* try_get_worker_id with the process id as a parameter.
try_get_worker_id(center_id, pid) ==
    BitAnd(BitAnd(hashcode(to_string(center_id) \o to_string(pid)), (2 ^ 16) - 1),
           MAX_WORKER_ID)

\* try_get_data_center_id, given what try_get_local_first_non_loopback_interface
\* returned: <<"Err", e>> or <<"Ok", mac>>.  With tail = mac.len() - 1 the code
\* reads mac[tail - 1] and mac[tail] (here mac[Len(mac) - 1] and mac[Len(mac)],
\* sequences being 1-based); on a vector of fewer than two bytes tail - 1
\* underflows: the subtraction panics in a debug build and the wrapped index
\* panics in a release build.
try_get_data_center_id(lookup) ==
    IF lookup[1] = "Err"
    THEN <<"Ok", BitAnd(DEFAULT_DATA_CENTER_ID, MAX_DATA_CENTER_ID)>>
    ELSE IF Len(lookup[2]) < 2 THEN <<"Panic", "index out of bounds">>
    ELSE LET mac == lookup[2]
             lower_bits == BitOr(BitAnd(255, mac[Len(mac) - 1]),
                                 BitAnd(65280, Shl(mac[Len(mac)], 8)))
             id == IF Shr(lower_bits, 8) = 0 THEN Shr(lower_bits, 6)
                   ELSE Shr(lower_bits, 8)
         IN  <<"Ok", BitAnd(id, MAX_DATA_CENTER_ID)>>

\* SnowflakeGenerator::dynamic, first half: the two identifiers are derived
\* (or the derivation panics).
Derive(t, lookup, pid) ==
    /\ new_result[t] = "none"
    /\ derived = NoResult
    /\ derived' =
           IF try_get_data_center_id(lookup)[1] = "Ok"
           THEN <<"Ok", try_get_data_center_id(lookup)[2],
                  try_get_worker_id(try_get_data_center_id(lookup)[2], pid), lookup, pid>>
           ELSE <<"Panic", lookup, pid>>
    /\ UNCHANGED <<clockVars, libVars, testVars, genVars, cellVars, callVars>>

\* SnowflakeGenerator::dynamic, second half: new(center_id, worker_id).
Dynamic(t) ==
    /\ derived[1] = "Ok"
    /\ New(t, derived[2], derived[3])

\* ---------------------------------------------------------- specifications

\* One generator, built with the defaults by thread 1 and cloned by the other
\* threads; every thread calls next_id once, concurrently; the clock never
\* goes back.
Next ==
    \/ Builtin(1)
    \/ \E t \in Threads \ {1} : Clone(t, 1)
    \/ \E t \in Threads : Begin(t)
    \/ \E t \in Threads : LoadLast(t)
    \/ \E t \in Threads : Sleep(t)
    \/ \E t \in Threads : Reread(t)
    \/ \E t \in Threads : FetchAdd(t)
    \/ \E t \in Threads : SetSequence(t)
    \/ \E t \in Threads : SetLastTimestamp(t)
    \/ Tick(MaxTick)

Spec == Init /\ [][Next]_vars

\* Construction alone, over every pair of arguments up to MaxIdArg.
NextNew == \E c \in 0 .. MaxIdArg, w \in 0 .. MaxIdArg : New(1, c, w)

SpecNew == Init /\ [][NextNew]_vars

\* Serial use: one thread builds the default generator and calls next_id over
\* and over, each call ending before the next starts; the clock never goes
\* back.
NextSerial ==
    \/ Builtin(1)
    \/ Begin(1)
    \/ LoadLast(1)
    \/ FetchAdd(1)
    \/ TilNextMillis(1)
    \/ SetSequence(1)
    \/ SetLastTimestamp(1)
    \/ Again(1)
    \/ Tick(MaxTick)

SpecSerial == Init /\ [][NextSerial]_vars

\* Serial use under fair scheduling: the clock keeps advancing (up to the bound
\* of the model) and a call that can leave til_next_millis does.
SpecSerialFair ==
    /\ SpecSerial
    /\ WF_vars(Tick(MaxTick))
    /\ WF_vars(TilNextMillis(1))

\* Two handles: thread 1 builds a generator, thread 2 builds its own or takes
\* a clone of thread 1's; the identifiers tried are 0, the default and the
\* first value past the maximum.  Each thread calls next_id once.
PairIds == {0, DEFAULT_WORKER_ID, MAX_WORKER_ID + 1}
Pair == {1, 2}

NextPair ==
    \/ \E t \in Pair, c \in PairIds \ {MAX_WORKER_ID + 1}, w \in PairIds : New(t, c, w)
    \/ Clone(2, 1)
    \/ \E t \in Pair : Begin(t)
    \/ \E t \in Pair : LoadLast(t)
    \/ \E t \in Pair : Sleep(t)
    \/ \E t \in Pair : Reread(t)
    \/ \E t \in Pair : FetchAdd(t)
    \/ \E t \in Pair : SetSequence(t)
    \/ \E t \in Pair : SetLastTimestamp(t)
    \/ Tick(MaxTick)

SpecPair == Init /\ [][NextPair]_vars

\* A clock that can be set back: thread 1 builds the default generator, thread
\* 2 takes a clone, and each calls next_id once, one call after the other.
NextClock ==
    \/ Builtin(1)
    \/ Clone(2, 1)
    \/ \E t \in Pair : SerialBegin(t)
    \/ \E t \in Pair : LoadLast(t)
    \/ \E t \in Pair : Sleep(t)
    \/ \E t \in Pair : Reread(t)
    \/ \E t \in Pair : FetchAdd(t)
    \/ \E t \in Pair : SetSequence(t)
    \/ \E t \in Pair : SetLastTimestamp(t)
    \/ Tick(MaxBackTick)
    \/ \E d \in 1 .. MaxBackTick : Regress(d)

SpecClock == Init /\ [][NextClock]_vars

\* Serial use with a clock that can be set back by a few milliseconds or to a
\* time before UNIX_EPOCH, at any point of a call.
NextFault ==
    \/ Builtin(1)
    \/ Begin(1)
    \/ LoadLast(1)
    \/ Sleep(1)
    \/ Reread(1)
    \/ FetchAdd(1)
    \/ TilNextMillis(1)
    \/ SetSequence(1)
    \/ SetLastTimestamp(1)
    \/ Again(1)
    \/ Tick(MaxTick)
    \/ \E d \in 1 .. MaxTick : Regress(d)
    \/ ClockFault

SpecFault == Init /\ [][NextFault]_vars

\* The library-level next_id: every thread calls it once, concurrently, on the
\* process-wide default instance; the clock never goes back (so that no call
\* finds the clock behind and the sleep and re-read are never entered).
NextLib ==
    \/ \E t \in Threads : GeneratorLock(t)
    \/ \E t \in Threads : GeneratorInit(t)
    \/ \E t \in Threads : Lock(t)
    \/ \E t \in Threads : Begin(t)
    \/ \E t \in Threads : LoadLast(t)
    \/ \E t \in Threads : FetchAdd(t)
    \/ \E t \in Threads : SetSequence(t)
    \/ \E t \in Threads : SetLastTimestamp(t)
    \/ \E t \in Threads : Unlock(t)
    \/ Tick(MaxTick)

SpecLib == Init /\ [][NextLib]_vars

\* Every way of calling next_id, concurrently: thread 1 builds the default
\* generator, thread 2 takes a clone of it, or either goes through the
\* library-level next_id; the clock ticks and can be set back.
NextUse ==
    \/ Builtin(1)
    \/ lpc[1] = "out" /\ Clone(2, 1)
    \/ \E t \in Pair : GeneratorLock(t)
    \/ \E t \in Pair : GeneratorInit(t)
    \/ \E t \in Pair : Lock(t)
    \/ \E t \in Pair : Begin(t)
    \/ \E t \in Pair : LoadLast(t)
    \/ \E t \in Pair : Sleep(t)
    \/ \E t \in Pair : Reread(t)
    \/ \E t \in Pair : FetchAdd(t)
    \/ \E t \in Pair : SetSequence(t)
    \/ \E t \in Pair : SetLastTimestamp(t)
    \/ \E t \in Pair : Unlock(t)
    \/ Tick(MaxTick)
    \/ \E d \in 1 .. MaxTick : Regress(d)

SpecUse == Init /\ [][NextUse]_vars

\* test_multi_thread_sequence: a generator and a clone of it, each moved to a
\* thread that makes Iterations rounds of set_sequence(get_sequence() + 1).
NextIncr ==
    \/ Builtin(1)
    \/ Clone(2, 1)
    \/ \E t \in Pair : GetSequence(t)
    \/ \E t \in Pair : StoreIncrement(t)

SpecIncr == Init /\ [][NextIncr]_vars

\* The state serial use is in after 4095 calls on the default generator within
\* the first millisecond (a state SpecSerial reaches): the last id returned has
\* sequence 4094, one call more and the sequence of the millisecond is used up.
InitBusy ==
    /\ clock = EPOCH
    /\ gen = [t \in Threads |->
                IF t = 1 THEN [center_id |-> DEFAULT_DATA_CENTER_ID,
                               worker_id |-> DEFAULT_WORKER_ID, cell |-> 1]
                ELSE NoGen]
    /\ new_result = [t \in Threads |-> IF t = 1 THEN "Ok" ELSE "none"]
    /\ new_args = [t \in Threads |->
                     IF t = 1 THEN <<DEFAULT_DATA_CENTER_ID, DEFAULT_WORKER_ID>>
                     ELSE <<>>]
    /\ sequence = [c \in Cells |-> IF c = 1 THEN SEQUENCE_MASK - 1 ELSE 0]
    /\ last_timestamp = [c \in Cells |-> IF c = 1 THEN EPOCH ELSE 0]
    /\ pc = [t \in Threads |-> "idle"]
    /\ timestamp = [t \in Threads |-> 0]
    /\ last = [t \in Threads |-> 0]
    /\ seq = [t \in Threads |-> 0]
    /\ result = [t \in Threads |-> NoResult]
    /\ reads = [t \in Threads |-> <<>>]
    /\ wrote_seq = [t \in Threads |-> -1]
    /\ wrote_ts = [t \in Threads |-> -1]
    /\ slept = [t \in Threads |-> 0]
    /\ prev = [t \in Threads |->
                 IF t = 1 THEN <<"Ok", MakeId(EPOCH, DEFAULT_DATA_CENTER_ID,
                                              DEFAULT_WORKER_ID, SEQUENCE_MASK - 1)>>
                 ELSE NoResult]
    /\ began = [t \in Threads |-> <<>>]
    /\ clock_back = FALSE
    /\ instance = NoGen
    /\ mutex = 0
    /\ lpc = [t \in Threads |-> "out"]
    /\ incs = [t \in Threads |-> 0]
    /\ got = [t \in Threads |-> -1]
    /\ derived = NoResult

\* The next step of the call thread t is in.
CallStep(t) ==
    \/ LoadLast(t)
    \/ Sleep(t)
    \/ Reread(t)
    \/ FetchAdd(t)
    \/ TilNextMillis(t)
    \/ SetSequence(t)
    \/ SetLastTimestamp(t)

\* Serial use near the end of a millisecond's sequence: the holder of the
\* generator and a clone call next_id once more each, one call after the other,
\* while the clock ticks and can be set back.
NextCall ==
    \/ Clone(2, 1)
    \/ \E t \in Pair : SerialBegin(t)
    \/ \E t \in Pair : LoadLast(t)
    \/ \E t \in Pair : Sleep(t)
    \/ \E t \in Pair : Reread(t)
    \/ \E t \in Pair : FetchAdd(t)
    \/ \E t \in Pair : TilNextMillis(t)
    \/ \E t \in Pair : SetSequence(t)
    \/ \E t \in Pair : SetLastTimestamp(t)
    \/ Tick(MaxTick)
    \/ \E d \in 1 .. MaxTick : Regress(d)

\* Fair scheduling: the call under way (there is at most one) takes its next
\* step when it can, and the clock advances while it is below the bound of the
\* model.
SpecCall ==
    /\ InitBusy /\ [][NextCall]_vars
    /\ WF_vars(\E t \in Pair : CallStep(t))
    /\ WF_vars(Tick(MaxTick))

\* A generator and a clone used in turn: thread 1 builds the default
\* generator, thread 2 takes a clone; the calls are serial, thread 1 calling
\* once more after the call through the clone; the clock never goes back.
NextClones ==
    \/ Builtin(1)
    \/ Clone(2, 1)
    \/ \E t \in Pair : SerialBegin(t)
    \/ \E t \in Pair : LoadLast(t)
    \/ \E t \in Pair : FetchAdd(t)
    \/ \E t \in Pair : SetSequence(t)
    \/ \E t \in Pair : SetLastTimestamp(t)
    \/ (pc[2] = "done" /\ prev[1] = NoResult /\ Again(1))
    \/ Tick(MaxTick)

SpecClones == Init /\ [][NextClones]_vars

\* What the interface lookup can return: its three errors, or the MAC of the
\* first non-loopback interface as bytes (one per '-'-separated field of the
\* MAC string, so at least one).
MacBytes == {0, 1, 31, 32, 64, 255}
RECURSIVE Macs(_)
Macs(n) ==
    IF n = 0 THEN {<<>>}
    ELSE {Append(m, b) : m \in Macs(n - 1), b \in MacBytes}
Lookups ==
    {<<"Err", "IfCfgError">>, <<"Err", "NonLoopbackNotFound">>, <<"Err", "ParseIntError">>}
        \cup {<<"Ok", m>> : m \in UNION {Macs(n) : n \in 1 .. MaxMacLen}}

\* Process ids of one to five digits.
Pids == {1, 9, 10, 4242, 65535}

\* SnowflakeGenerator::dynamic() over every outcome of the lookup and the
\* process ids above.
NextDynamic ==
    \/ \E lookup \in Lookups, pid \in Pids : Derive(1, lookup, pid)
    \/ Dynamic(1)

SpecDynamic == Init /\ [][NextDynamic]_vars

\* ------------------------------------------------------------------ claims

IsOk(r) == r[1] = "Ok"
IsErr(r, e) == r = <<"Err", e>>
IdOf(r) == r[2]

\* The threads whose call has returned, and the states with no call under way.
Returned == {t \in Threads : pc[t] = "done"}
Quiet == \A t \in Threads : pc[t] \in {"idle", "done"}

\* C1: in serial use with a clock that never goes back, every call returns an
\* id strictly greater than the id the previous call returned.
C1_SerialIdsIncrease ==
    (IsOk(prev[1]) /\ IsOk(result[1])) => IdOf(result[1]) > IdOf(prev[1])

\* C1 witness: two successive calls returned ids, the later one after the
\* sequence ran out and the call waited for the next millisecond.
C1_Witness ==
    /\ IsOk(prev[1])
    /\ IsOk(result[1])
    /\ Len(reads[1]) = 2
    /\ wrote_seq[1] = 0

\* C2: calls running concurrently on one shared generator never return the
\* same id.
C2_UniqueUnderContention ==
    \A t, u \in Threads :
        (t # u /\ IsOk(result[t]) /\ IsOk(result[u]) /\ Cell(t) = Cell(u))
            => IdOf(result[t]) # IdOf(result[u])

\* The orders in which the calls of S can be put one after the other.
Orders(S) ==
    {o \in [1 .. Cardinality(S) -> S] :
        \A i, j \in 1 .. Cardinality(S) : i # j => o[i] # o[j]}

\* Running the calls o[i], o[i+1], ... up to o[n] one after the other from
\* <<s, l>> returns what they returned and ends in the stored pair of cell c.
RECURSIVE SerialRunMatches(_, _, _, _, _, _)
SerialRunMatches(o, i, n, s, l, c) ==
    IF i > n
    THEN s = sequence[c] /\ l = last_timestamp[c]
    ELSE LET r == SerialNextId(gen[o[i]], s, l, reads[o[i]])
         IN  /\ r.fits
             /\ r.result = result[o[i]]
             /\ SerialRunMatches(o, i + 1, n, r.sequence, r.last_timestamp, c)

\* C3: the calls made on one instance are linearizable: once they have all
\* returned, the ids and the stored (sequence, last_timestamp) are those of
\* some serial order of the same calls with the same clock readings.
C3_Linearizable ==
    (Quiet /\ Returned # {})
        => \E o \in Orders(Returned) :
               SerialRunMatches(o, 1, Cardinality(Returned), 0, 0, 1)

\* C4: new fails with CenterIdInvalid for every center_id > 31, whatever
\* worker_id is.
C4_CenterRejected ==
    \A t \in Threads :
        (new_result[t] # "none" /\ new_args[t] # <<>> /\ new_args[t][1] > 31)
            => (new_result[t] = "CenterIdInvalid" /\ gen[t] = NoGen)

\* C4 witness: new(32, 32) was called and returned CenterIdInvalid.
C4_Witness == new_args[1] = <<32, 32>> /\ new_result[1] = "CenterIdInvalid"

\* C5: new fails with WorkerIdInvalid for every worker_id > 31 when
\* center_id <= 31, so no generator with worker_id > 31 is ever built.
C5_WorkerRejected ==
    \A t \in Threads :
        /\ (new_result[t] # "none" /\ new_args[t] # <<>>
              /\ new_args[t][1] <= 31 /\ new_args[t][2] > 31)
             => new_result[t] = "WorkerIdInvalid"
        /\ gen[t].worker_id <= 31

\* C6: for every center_id <= 31 and worker_id <= 31 construction succeeds and
\* the generator holds those two values, with sequence 0 and last_timestamp 0.
C6_ValidPairBuilds ==
    \A t \in Threads :
        (new_args[t] # <<>> /\ new_args[t][1] <= 31 /\ new_args[t][2] <= 31)
            => /\ new_result[t] = "Ok"
               /\ gen[t].center_id = new_args[t][1]
               /\ gen[t].worker_id = new_args[t][2]
               /\ sequence[Cell(t)] = 0
               /\ last_timestamp[Cell(t)] = 0

\* C6 witness: new(31, 31) returned a generator holding (31, 31).
C6_Witness ==
    /\ new_args[1] = <<31, 31>>
    /\ new_result[1] = "Ok"
    /\ gen[1].center_id = 31
    /\ gen[1].worker_id = 31

\* The id is the documented packing of the values the call of t stored.
PackedFromStored(t) ==
    /\ wrote_ts[t] >= EPOCH
    /\ wrote_seq[t] >= 0
    /\ IdOf(result[t]) =
           BitOr(BitOr(BitOr((wrote_ts[t] - EPOCH) * 4194304,
                             gen[t].center_id * 131072),
                       gen[t].worker_id * 4096),
                 wrote_seq[t])

\* The call of t is the example's: a (1, 1) generator, epoch + 1 ms, sequence 0.
ExampleCall(t) ==
    /\ gen[t].center_id = 1
    /\ gen[t].worker_id = 1
    /\ wrote_ts[t] = EPOCH + 1
    /\ wrote_seq[t] = 0

\* C7 as stated: every id next_id returns is ((now - epoch) << 22) |
\* (center_id << 17) | (worker_id << 12) | sequence, with now and sequence the
\* values the call stored; a fresh (1, 1) generator whose first call uses
\* epoch + 1 ms and sequence 0 returns 4325376.
C7_PackedAsDocumented ==
    \A t \in Threads :
        IsOk(result[t]) =>
            /\ PackedFromStored(t)
            /\ ExampleCall(t) => IdOf(result[t]) = 4325376

\* C7 amended: the packing is as documented, and the example call returns
\* (1 << 22) | (1 << 17) | (1 << 12) = 4329472.
C7_PackedAmended ==
    \A t \in Threads :
        IsOk(result[t]) =>
            /\ PackedFromStored(t)
            /\ ExampleCall(t) => IdOf(result[t]) = 4329472

\* C7 witness: a (1, 1) generator returned an id for epoch + 1 ms, sequence 0,
\* while another generator with other fields returned one too.
C7_Witness ==
    /\ IsOk(result[1])
    /\ IsOk(result[2])
    /\ gen[1].center_id = 1 /\ gen[1].worker_id = 1
    /\ wrote_ts[1] = EPOCH + 1 /\ wrote_seq[1] = 0
    /\ gen[2].center_id = 0 /\ gen[2].worker_id = 32

\* C8: the shifts and masks recover the generator's own fields from every id
\* it returns.
C8_FieldsRecoverable ==
    \A t \in Threads :
        IsOk(result[t]) =>
            /\ BitAnd(Shr(IdOf(result[t]), 17), 31) = gen[t].center_id
            /\ BitAnd(Shr(IdOf(result[t]), 12), 31) = gen[t].worker_id
            /\ BitAnd(IdOf(result[t]), 4095) = wrote_seq[t]

\* C9: two generators that share no state and were given distinct
\* (center_id, worker_id) pairs never return the same id.
C9_DistinctPairsDisjoint ==
    \A t, u \in Threads :
        (/\ IsOk(result[t]) /\ IsOk(result[u])
         /\ Cell(t) # Cell(u)
         /\ <<gen[t].center_id, gen[t].worker_id>>
              # <<gen[u].center_id, gen[u].worker_id>>)
            => IdOf(result[t]) # IdOf(result[u])

\* C10: a call that reads a clock value more than 8 ms behind last_timestamp
\* returns ClockMovedBackwards at once (no second clock read, no id), and no
\* call returns an id whose timestamp is below the last_timestamp it read.
C10_LargeRegressionRejected ==
    \A t \in Threads :
        /\ (pc[t] = "done" /\ last[t] - reads[t][1] > 8)
             => (IsErr(result[t], "ClockMovedBackwards") /\ Len(reads[t]) = 1)
        /\ IsOk(result[t]) => wrote_ts[t] >= last[t]

\* The first clock reading of the call of t is behind the last_timestamp it
\* loaded by 1 .. 8 ms.
SmallRegression(t) ==
    /\ pc[t] = "done"
    /\ reads[t][1] < last[t]
    /\ last[t] - reads[t][1] <= 8

\* C11: a serial call that reads the clock 1 .. 8 ms behind last_timestamp
\* sleeps once, for twice the delta, and reads the clock once more; it returns
\* an id with a timestamp >= last_timestamp when the second reading is >=
\* last_timestamp and ClockMovedBackwards otherwise.
C11_SmallRegression ==
    \A t \in Threads :
        SmallRegression(t) =>
            /\ slept[t] = 2 * (last[t] - reads[t][1])
            /\ Len(reads[t]) = 2
            /\ last[t] = began[t][2]
            /\ IF reads[t][2] >= last[t]
               THEN IsOk(result[t]) /\ wrote_ts[t] >= last[t]
                    /\ Shr(IdOf(result[t]), 22) + EPOCH >= last[t]
               ELSE IsErr(result[t], "ClockMovedBackwards")

\* C11 witness: the second call read the clock 2 ms behind, slept 4 ms, read a
\* clock that had caught up and returned an id.
C11_Witness ==
    /\ SmallRegression(2)
    /\ last[2] - reads[2][1] = 2
    /\ slept[2] = 4
    /\ IsOk(result[2])

\* C12: the stored last_timestamp of an instance never decreases, whatever
\* the clock does and however the calls interleave.
C12_LastTimestampMonotone ==
    [][\A c \in Cells : last_timestamp'[c] >= last_timestamp[c]]_vars

\* The step is the return of an error by the call of t.
ReturnsError(t) ==
    /\ pc[t] # "done"
    /\ pc'[t] = "done"
    /\ result'[t][1] = "Err"

\* The step is one of a call that is past the point where it can return an
\* error (it goes on to store both fields and return an id).
StepOfSuccessPath(t) ==
    /\ pc[t] \in {"fetch_add", "set_seq", "set_last"}
    /\ pc'[t] \in {"til_next", "set_seq", "set_last", "done"}
    /\ result'[t][1] # "Err"

ReadFailed(t) ==
    /\ reads[t] # <<>>
    /\ reads[t][Len(reads[t])] = BeforeUnixEpoch

\* C14: a call whose clock read fails (first read, re-read after the sleep, or
\* a read of the wait for the next millisecond) returns Err(SystemTimeError).
C14_ReadFailureReturned ==
    \A t \in Threads :
        ReadFailed(t) => /\ pc[t] = "done"
                         /\ IsErr(result[t], "SystemTimeError")

\* The fields of an id.
TimestampOf(id) == Shr(id, TIMESTAMP_SHIFT) + EPOCH
SequenceOf(id) == BitAnd(id, SEQUENCE_MASK)

\* Thread t has two consecutive ids: prev[t], then result[t].
TwoIds(t) == pc[t] = "done" /\ IsOk(prev[t]) /\ IsOk(result[t])

\* C15: in serial use the ids of one millisecond carry strictly increasing
\* sequence fields (so at most 4096 of them); a call that finds the sequence
\* exhausted in its millisecond waits for a later reading and returns an id
\* with that later timestamp and sequence 0; so a call that follows an id of
\* sequence 4095 carries a strictly later timestamp.
C15_AtMost4096PerMillisecond ==
    TwoIds(1) =>
        LET a == IdOf(prev[1])
            b == IdOf(result[1])
            waited == reads[1][1] = last[1] /\ BitAnd(began[1][1] + 1, SEQUENCE_MASK) = 0
        IN  /\ TimestampOf(b) >= TimestampOf(a)
            /\ TimestampOf(b) = TimestampOf(a) =>
                   /\ SequenceOf(b) = SequenceOf(a) + 1
                   /\ SequenceOf(b) <= SEQUENCE_MASK
                   /\ SequenceOf(b) <= 4095
            /\ SequenceOf(a) = 4095 => TimestampOf(b) > TimestampOf(a)
            /\ waited =>
                   /\ SequenceOf(a) = 4095
                   /\ Len(reads[1]) = 2
                   /\ reads[1][2] > reads[1][1]
                   /\ TimestampOf(b) = reads[1][2]
                   /\ SequenceOf(b) = 0

\* C15 witness: the call after the id of sequence 4095 started in the same
\* millisecond, waited, and returned sequence 0 in the next millisecond.
C15_Witness ==
    /\ TwoIds(1)
    /\ SequenceOf(IdOf(prev[1])) = 4095
    /\ reads[1][1] = TimestampOf(IdOf(prev[1]))
    /\ Len(reads[1]) = 2
    /\ TimestampOf(IdOf(result[1])) = TimestampOf(IdOf(prev[1])) + 1
    /\ SequenceOf(IdOf(result[1])) = 0

\* The bits of an id that a field of `bits` bits at `shift` occupies.
FieldBits(shift, bits) == Shl(LowBits(bits), shift)

\* C16: the layout constants have the documented values; the sequence, worker
\* and center fields occupy [0,12), [12,17) and [17,22), contiguous and
\* disjoint, 22 bits in all, which leaves 41 bits below the sign bit; in every
\* id returned the sequence is what bits [0,12) hold and the milliseconds since
\* EPOCH what the bits from 22 up hold.
C16_Layout ==
    /\ \A t \in Threads :
           IsOk(result[t]) =>
               /\ BitAnd(IdOf(result[t]), FieldBits(0, SEQUENCE_BITS)) = seq[t]
               /\ Shr(IdOf(result[t]), 22) = wrote_ts[t] - EPOCH
    /\ MAX_DATA_CENTER_ID = 31
    /\ MAX_WORKER_ID = 31
    /\ SEQUENCE_MASK = 4095
    /\ WORKER_ID_SHIFT = 12
    /\ CENTER_ID_SHIFT = 17
    /\ TIMESTAMP_SHIFT = 22
    /\ WORKER_ID_SHIFT = 0 + SEQUENCE_BITS
    /\ CENTER_ID_SHIFT = WORKER_ID_SHIFT + WORKER_ID_BITS
    /\ TIMESTAMP_SHIFT = CENTER_ID_SHIFT + DATA_CENTER_ID_BITS
    /\ FieldBits(0, SEQUENCE_BITS) = SEQUENCE_MASK
    /\ FieldBits(WORKER_ID_SHIFT, WORKER_ID_BITS) = Shl(MAX_WORKER_ID, WORKER_ID_SHIFT)
    /\ FieldBits(CENTER_ID_SHIFT, DATA_CENTER_ID_BITS)
           = Shl(MAX_DATA_CENTER_ID, CENTER_ID_SHIFT)
    /\ BitAnd(FieldBits(0, SEQUENCE_BITS),
              FieldBits(WORKER_ID_SHIFT, WORKER_ID_BITS)) = 0
    /\ BitAnd(FieldBits(WORKER_ID_SHIFT, WORKER_ID_BITS),
              FieldBits(CENTER_ID_SHIFT, DATA_CENTER_ID_BITS)) = 0
    /\ BitAnd(FieldBits(0, SEQUENCE_BITS),
              FieldBits(CENTER_ID_SHIFT, DATA_CENTER_ID_BITS)) = 0
    /\ BitOr(BitOr(FieldBits(0, SEQUENCE_BITS),
                   FieldBits(WORKER_ID_SHIFT, WORKER_ID_BITS)),
             FieldBits(CENTER_ID_SHIFT, DATA_CENTER_ID_BITS)) = (2 ^ 22) - 1
    /\ SEQUENCE_BITS + WORKER_ID_BITS + DATA_CENTER_ID_BITS = 22
    /\ 63 - TIMESTAMP_SHIFT = 41

\* C16 witness: an id returned by a generator built with the default
\* identifiers, whose bits [12,17) hold the worker id, bits [17,22) the center
\* id, and whose bits from 22 up hold the milliseconds since EPOCH.
C16_Witness ==
    \E t \in Pair :
        /\ IsOk(result[t])
        /\ gen[t].center_id = DEFAULT_DATA_CENTER_ID
        /\ gen[t].worker_id = DEFAULT_WORKER_ID
        /\ wrote_ts[t] = EPOCH + 1
        /\ Shr(BitAnd(IdOf(result[t]), FieldBits(WORKER_ID_SHIFT, WORKER_ID_BITS)),
               WORKER_ID_SHIFT) = gen[t].worker_id
        /\ Shr(BitAnd(IdOf(result[t]), FieldBits(CENTER_ID_SHIFT, DATA_CENTER_ID_BITS)),
               CENTER_ID_SHIFT) = gen[t].center_id
        /\ Shr(IdOf(result[t]), TIMESTAMP_SHIFT) = 1

\* Thread t is inside the inner next_id call of the library-level next_id.
Inside(t) == lpc[t] = "inside"

\* C19: the library-level next_id holds the mutex of the default instance for
\* the whole inner call, so at most one thread is inside it; with a clock that
\* never goes back no two callers receive the same id.
C19_LibraryCallsExclusive ==
    /\ \A t \in Threads : Inside(t) => mutex = t
    /\ \A t \in Threads : pc[t] \notin {"idle", "done"} => Inside(t)
    /\ Cardinality({t \in Threads : Inside(t)}) <= 1
    /\ \A t, u \in Threads :
           (t # u /\ lpc[t] = "returned" /\ lpc[u] = "returned"
                  /\ IsOk(result[t]) /\ IsOk(result[u]))
               => IdOf(result[t]) # IdOf(result[u])

\* C19 witness: thread 2 is in the middle of the inner call, thread 1 waits
\* for the guard it holds.
C19_Witness ==
    /\ Inside(2)
    /\ pc[2] = "set_seq"
    /\ lpc[1] = "lock"
    /\ mutex = 2

\* C17: while the clock has been readable and has never gone back, every
\* finished next_id call returned Ok, and so did the library-level next_id and
\* next_id_string made of it; a call that returned ClockMovedBackwards is one
\* whose last clock reading was smaller than the last_timestamp it loaded, and
\* no other error is returned.
C17_OkUnlessClockBack ==
    \A t \in Threads :
        pc[t] = "done" =>
            /\ ~clock_back => IsOk(result[t])
            /\ (~clock_back /\ lpc[t] = "returned") =>
                   /\ IsOk(NextIdString(result[t]))
                   /\ Len(NextIdString(result[t])[2]) >= 1
            /\ ~IsOk(result[t]) =>
                   /\ IsErr(result[t], "ClockMovedBackwards")
                   /\ reads[t][Len(reads[t])] < last[t]

\* C17 witness: with the clock never set back, a direct call by thread 1 and a
\* library-level call by thread 2 have both returned Ok.
C17_Witness ==
    /\ ~clock_back
    /\ lpc[1] = "out" /\ pc[1] = "done" /\ IsOk(result[1])
    /\ lpc[2] = "returned" /\ IsOk(result[2])
    /\ IsOk(NextIdString(result[2]))

\* Both threads have made all their rounds.
Joined == \A t \in Pair : incs[t] = Iterations /\ got[t] = -1

\* C18: clones share the sequence counter and no increment is lost: once the
\* two threads have each made n rounds of set_sequence(get_sequence() + 1),
\* the sequence of the original generator is 2n.
C18_NoIncrementLost ==
    /\ (new_result[1] = "Ok" /\ new_result[2] = "Ok") => Cell(2) = Cell(1)
    /\ Joined => sequence[Cell(1)] = 2 * Iterations

\* The call of thread 1 used a timestamp later than the last_timestamp it read.
NewMillisecond ==
    /\ pc[1] = "done"
    /\ IsOk(result[1])
    /\ wrote_ts[1] > last[1]

\* C20: a call that uses a timestamp strictly greater than the last_timestamp
\* it read returns an id with sequence field 0 and leaves the stored sequence
\* at 0.
C20_NewMillisecondResets ==
    NewMillisecond =>
        /\ SequenceOf(IdOf(result[1])) = 0
        /\ sequence[Cell(1)] = 0

\* The finished call of thread 1 read a clock value equal to last_timestamp
\* with the sequence not exhausted.
SameMillisecond ==
    /\ pc[1] = "done"
    /\ reads[1][1] = last[1]
    /\ BitAnd(began[1][1] + 1, SEQUENCE_MASK) # 0

\* C21: in serial use a call that reads a clock value equal to last_timestamp,
\* the sequence not exhausted, returns an id with that timestamp and a
\* sequence field one above that of the previous id, and the stored sequence
\* has advanced by exactly one.
C21_SameMillisecondIncrements ==
    SameMillisecond =>
        /\ IsOk(result[1])
        /\ IsOk(prev[1])
        /\ Len(reads[1]) = 1
        /\ TimestampOf(IdOf(result[1])) = last[1]
        /\ TimestampOf(IdOf(result[1])) = TimestampOf(IdOf(prev[1]))
        /\ SequenceOf(IdOf(result[1])) = SequenceOf(IdOf(prev[1])) + 1
        /\ sequence[Cell(1)] = began[1][1] + 1
        /\ last_timestamp[Cell(1)] = began[1][2]

\* C21 witness: the second call of a millisecond returned sequence 1 after
\* the first returned sequence 0.
C21_Witness ==
    /\ SameMillisecond
    /\ SequenceOf(IdOf(prev[1])) = 0
    /\ SequenceOf(IdOf(result[1])) = 1
    /\ sequence[Cell(1)] = 1

\* C22: the stored sequence of every instance is within [0, 4095] in every
\* reachable state, the states in the middle of a call included.
C22_SequenceInRange ==
    \A c \in Cells : sequence[c] >= 0 /\ sequence[c] <= 4095

\* Thread 1 is in the loop of til_next_millis(timestamp[1]).
Polling == pc[1] = "til_next"

\* C23: til_next_millis returns only a clock reading strictly greater than its
\* argument, stays in its loop while the readings are <= the argument, and
\* returns once the clock reports a greater value.
C23_TilNextMillis ==
    /\ [][Polling =>
            /\ clock <= timestamp[1] => (pc'[1] = "til_next" /\ timestamp'[1] = timestamp[1])
            /\ pc'[1] # "til_next" =>
                   /\ pc'[1] = "set_seq"
                   /\ timestamp'[1] = clock
                   /\ timestamp'[1] > timestamp[1]]_vars
    /\ (Polling /\ clock > timestamp[1]) ~> (pc[1] = "set_seq")

\* C23 witness: the call has left til_next_millis with a reading one
\* millisecond after the one it entered with.
C23_Witness ==
    /\ pc[1] = "set_seq"
    /\ Len(reads[1]) = 2
    /\ reads[1][1] = last[1]
    /\ timestamp[1] = reads[1][2]
    /\ timestamp[1] = last[1] + 1

\* Thread t is inside a next_id call that has not returned.
InCall(t) == pc[t] \notin {"idle", "done"}

\* Thread t polls the clock in til_next_millis and the clock has not passed
\* the value it waits for.
ClockNotAdvanced(t) == pc[t] = "til_next" /\ clock <= timestamp[t]

\* C24: a call returns an id or an error unless it is left waiting for a clock
\* that does not advance (the calls are serial: when a call is under way,
\* eventually none is, or the one under way is polling a clock that has not
\* passed its timestamp); for a regression it sleeps at most once, re-reads
\* the clock once, and goes on to return: it never goes back to retry.
C24_CallReturns ==
    /\ [][\A t \in Threads :
            /\ Len(reads'[t]) <= 3
            /\ slept'[t] > 0 => slept'[t] = 2 * (last'[t] - reads'[t][1])
            /\ pc'[t] = "done" =>
                   (IsOk(result'[t]) \/ IsErr(result'[t], "ClockMovedBackwards"))
            /\ pc'[t] = "sleep" => pc[t] \in {"load_last", "sleep"}
            /\ pc[t] = "sleep" => pc'[t] \in {"sleep", "reread"}
            /\ pc[t] = "reread" => pc'[t] \in {"reread", "done", "fetch_add"}
            /\ pc'[t] = "load_last" => pc[t] \in {"idle", "load_last"}]_vars
    /\ (\E t \in Pair : InCall(t))
           ~> ((\A t \in Pair : ~InCall(t)) \/ (\E t \in Pair : ClockNotAdvanced(t)))

\* C24 witness: a call that found the clock behind, slept, re-read the clock
\* and returned an id.
C24_Witness ==
    /\ pc[2] = "done"
    /\ slept[2] = 2
    /\ Len(reads[2]) = 2
    /\ reads[2][1] < last[2]
    /\ IsOk(result[2])

\* C25: the default generator is built at most once: once BUILT_IN_SNOWFLAKE
\* holds a generator it holds that generator for ever, every thread past
\* generator() finds it there, and every library-level caller works on it,
\* hence on one (sequence, last_timestamp) cell.
C25_DefaultBuiltOnce ==
    [][/\ instance # NoGen => instance' = instance
       /\ instance' # instance => instance = NoGen
       /\ \A t \in Threads :
              /\ lpc'[t] \in {"lock", "inside", "returned"} => instance' # NoGen
              /\ lpc'[t] \in {"inside", "returned"} => gen'[t] = instance'
       /\ \A t, u \in Threads :
              (lpc'[t] = "returned" /\ lpc'[u] = "returned") => Cell(t)' = Cell(u)']_vars

\* C25 witness: both threads have returned from the library-level next_id,
\* the second having found the generator the first one built and the
\* timestamp it stored.
C25_Witness ==
    /\ lpc[1] = "returned" /\ lpc[2] = "returned"
    /\ instance # NoGen
    /\ gen[1] = instance /\ gen[2] = instance
    /\ IsOk(result[1]) /\ IsOk(result[2])
    /\ began[1] = <<0, 0>>
    /\ began[2] = <<wrote_seq[1], wrote_ts[1]>>

\* The ids returned so far through the original (thread 1, up to two) and
\* through the clone (thread 2).
IdsReturned ==
    {r \in {<<1, 1, prev[1]>>, <<1, 2, result[1]>>, <<2, 1, result[2]>>} : IsOk(r[3])}

\* What the call of thread t has stored.
Wrote(t) == <<wrote_seq[t], wrote_ts[t]>>

\* C26: a generator and its clone are one domain: serial calls made in turn
\* through the original and the clone never return the same id, and each call
\* starts from the sequence and last_timestamp the preceding call, made
\* through the other handle, has stored (the first call of all starts from
\* <<0, 0>>; the clone's call is preceded by one of the original unless it is
\* the first).
C26_ClonesShareState ==
    /\ \A a, b \in IdsReturned : a # b => IdOf(a[3]) # IdOf(b[3])
    /\ (new_result[1] = "Ok" /\ new_result[2] = "Ok") => Cell(1) = Cell(2)
    /\ (pc[1] = "done" /\ pc[2] = "done" /\ prev[1] = NoResult) =>
           \/ began[1] = <<0, 0>> /\ began[2] = Wrote(1)
           \/ began[2] = <<0, 0>> /\ began[1] = Wrote(2)
    /\ (prev[1] # NoResult /\ began[1] # <<>> /\ began[2] # <<0, 0>>) =>
           began[1] = Wrote(2)

\* C26 witness: the original, the clone and the original again have each
\* returned an id in the same millisecond; the clone started from what the
\* original stored and the original's second call from what the clone stored.
C26_Witness ==
    /\ Cardinality(IdsReturned) = 3
    /\ pc[1] = "done"
    /\ began[2] = <<0, EPOCH>>
    /\ began[1] = Wrote(2)
    /\ Wrote(2) = <<1, EPOCH>>
    /\ Wrote(1) = <<2, EPOCH>>

\* C27: whatever the interface lookup returns (an error, or a MAC of any
\* length) and whatever the process id, dynamic() derives a center id <= 31
\* and a worker id <= 31 and constructs the generator.
C27_DynamicIdsValid ==
    /\ derived # NoResult =>
           /\ derived[1] = "Ok"
           /\ derived[2] <= 31
           /\ derived[3] <= 31
    /\ new_result[1] # "none" => new_result[1] = "Ok"

====
